---- MODULE Spec2Model ----
(***************************************************************************)
(* Model of the student/teacher CRUD backend.                              *)
(*                                                                         *)
(* The repository holds two versions of the server:                        *)
(*   "backend" : src/backend/server.js   (validation, try/catch,           *)
(*               store-assigned identifiers)                               *)
(*   "unnamed" : src/unnamed/part_000    (MAX(id)+1 inserts, renumbering   *)
(*               after delete, no validation, no try/catch)                *)
(* The variable `variant` says which of the two is the running process.    *)
(*                                                                         *)
(* The store (MySQL) is modelled by its observable statement semantics:    *)
(* a statement fails when the store is down or the pool was closed, when   *)
(* it names a column the table does not have, or when it would duplicate a *)
(* primary key; AUTO_INCREMENT hands out a per-table counter. The column   *)
(* created_at is not modelled (no handler reads or writes it).             *)
(***************************************************************************)
EXTENDS Integers, Sequences, FiniteSets, Bags, TLC

VARIABLES
    variant,    \* which source file is the running server
    env,        \* the set of required environment variables that are set
    pc,         \* position of the process: envcheck, connecting, delay,
                \* ensure_student, ensure_teacher, listening, shutting, exited
    exitCode,   \* NoExit while running, else the status given to process.exit
    attempt,    \* loop variable of connectWithRetry (0 when not in scope)
    db,         \* TRUE once the module-level `db` holds a pool
    log,        \* startup milestones, in order of occurrence
    storeUp,    \* TRUE while the database answers statements
    schema,     \* per table: name of its class column, or "none" if absent
    tables,     \* per table: the set of rows
    autoInc,    \* per table: the AUTO_INCREMENT counter of the store
    inflight,   \* the bag of handlers suspended at an await
    out,        \* what the last step sent to a client (NoResp if nothing)
    sent,       \* number of data requests received so far
    focus,      \* the resource the clients of this behaviour work on
    retries,    \* connectWithRetry parameter (SpecConnect)
    failN,      \* number of leading attempts the store fails (SpecConnect)
    cpc,        \* position inside a stand-alone connectWithRetry call
    made,       \* attempts made by the stand-alone call
    lastErr,    \* error caught at the most recent failed attempt
    thrown      \* error thrown to the caller of the stand-alone call

vars == <<variant, env, pc, exitCode, attempt, db, log, storeUp, schema,
          tables, autoInc, inflight, out, sent, focus, retries, failN, cpc, made,
          lastErr, thrown>>

serverVars == <<variant, env, pc, exitCode, db, log, storeUp, schema,
                tables, autoInc, inflight, out, sent>>

\* what no action of the server process changes
staticVars == <<focus, retries, failN, cpc, made, lastErr, thrown>>

(***************************************************************************)
(* Bounds of the model                                                     *)
(***************************************************************************)
MaxRequests == 2    \* data requests the clients send in one behaviour
MaxInitRows == 1    \* rows per table an earlier run left in the database
MaxInFlight == 2    \* handlers suspended at an await at the same time
MaxAttempts == 4    \* largest maxAttempts tried on connectWithRetry
MaxFail == 5        \* largest number of leading failures of the store

(***************************************************************************)
(* Program constants                                                       *)
(***************************************************************************)
DefaultRetries == 10

REQUIRED_ENV_VARS == <<"DB_HOST", "DB_USER", "DB_PASSWORD", "DB_NAME">>

RequiredSet == {REQUIRED_ENV_VARS[i] : i \in 1..Len(REQUIRED_ENV_VARS)}

Variants == {"backend", "unnamed"}

Tables == {"student", "teacher"}

NoExit == -1
NoErr == [attempt |-> 0, kind |-> "none"]

\* request payloads: a field is a non-empty string, "" or Undef (absent)
Undef == "undefined"
NoBody == [name |-> Undef, second |-> Undef, class |-> Undef]
ValidBodies == {[name |-> "a", second |-> "r1", class |-> "c1"],
                [name |-> "b", second |-> "r2", class |-> "c2"]}
InvalidBodies == {[name |-> "a", second |-> Undef, class |-> ""],
                  [name |-> "", second |-> "r2", class |-> "c2"]}
Bodies == ValidBodies \cup InvalidBodies

\* identifiers a client may name in DELETE /<table>/:id
DeleteIds == 1..MaxRequests

Resp(route, status, body, data, reqBody, reqId) ==
    [route |-> route, status |-> status, body |-> body, data |-> data,
     reqBody |-> reqBody, reqId |-> reqId]

NoResp == Resp("none", 0, "none", <<>>, NoBody, 0)

Req(kind, t, body, id, rpc) ==
    [kind |-> kind, t |-> t, body |-> body, id |-> id, pc |-> rpc,
     nextID |-> 0, pending |-> {}, rejected |-> FALSE]

OwnColumn(v) == IF v = "backend" THEN "class_name" ELSE "class"

(***************************************************************************)
(* Fail-fast check of the required environment variables.                  *)
(* `!process.env[key]` is true for an unset and for an empty variable;     *)
(* env is the set of variables holding a non-empty value.                  *)
(***************************************************************************)
EnvMissingIgnoresName(e) == {k \in RequiredSet \ {"DB_NAME"} : k \notin e}

EnvMissing(e) == {k \in RequiredSet : k \notin e}

EnvCheck ==
    /\ pc = "envcheck"
    /\ IF EnvMissing(env) = {}
       THEN /\ pc' = "connecting"
            /\ attempt' = 1
            /\ exitCode' = exitCode
            /\ log' = Append(log, "env_ok")
       ELSE /\ pc' = "exited"
            /\ attempt' = attempt
            /\ exitCode' = 1
            /\ log' = Append(log, "env_missing")
    /\ out' = NoResp
    /\ UNCHANGED <<variant, env, db, storeUp, schema, tables, autoInc,
                   inflight, sent>>
    /\ UNCHANGED staticVars

(***************************************************************************)
(* connectWithRetry: one pass through the body of the for loop.            *)
(* ok says whether createPool and the SELECT 1 both succeeded.             *)
(***************************************************************************)
ConnectAttemptEarlyThrow(att, ret, ok) ==
    IF ok THEN "return"
    ELSE IF att >= ret - 1 THEN "throw"
    ELSE "retry"

ConnectAttempt(att, ret, ok) ==
    IF ok THEN "return"
    ELSE IF att = ret THEN "throw"
    ELSE "retry"

\* the loop condition attempt <= retries, evaluated after attempt++
LoopCond(att, ret) == att <= ret

\* a statement sent through the pool succeeds only if the store answers and
\* the pool was not closed by the SIGINT handler
DbOk == storeUp /\ pc # "shutting"

StartupExit(event) ==
    /\ pc' = "exited"
    /\ exitCode' = 1
    /\ log' = Append(log, event)

StartupConnect ==
    /\ pc = "connecting"
    /\ \E created \in BOOLEAN :
         LET r == ConnectAttempt(attempt, DefaultRetries, created /\ storeUp) IN
         CASE r = "return" ->
                /\ db' = TRUE
                /\ attempt' = 0
                /\ pc' = "ensure_student"
                /\ log' = Append(log, "pool")
                /\ exitCode' = exitCode
           [] r = "throw" ->
                /\ StartupExit("connect_failed")
                /\ UNCHANGED <<db, attempt>>
           [] OTHER ->
                /\ pc' = "delay"
                /\ UNCHANGED <<db, attempt, log, exitCode>>
    /\ out' = NoResp
    /\ UNCHANGED <<variant, env, storeUp, schema, tables, autoInc, inflight,
                   sent>>
    /\ UNCHANGED staticVars

\* the timer of `await new Promise(res => setTimeout(res, delay))` fires and
\* the loop goes round; a loop that runs out returns undefined, on which
\* ensureTables throws
StartupDelay ==
    /\ pc = "delay"
    /\ attempt' = attempt + 1
    /\ IF LoopCond(attempt + 1, DefaultRetries)
       THEN /\ pc' = "connecting"
            /\ UNCHANGED <<exitCode, log>>
       ELSE StartupExit("tables_failed")
    /\ out' = NoResp
    /\ UNCHANGED <<variant, env, db, storeUp, schema, tables, autoInc,
                   inflight, sent>>
    /\ UNCHANGED staticVars

(***************************************************************************)
(* ensureTables: two CREATE TABLE IF NOT EXISTS statements, then (back in  *)
(* the initialisation function) the routes, the SIGINT handler and listen. *)
(***************************************************************************)
CreateIfNotExists(sch, t, v) ==
    IF sch[t] = "none" THEN [sch EXCEPT ![t] = OwnColumn(v)] ELSE sch

EnsureStudent ==
    /\ pc = "ensure_student"
    /\ IF DbOk
       THEN /\ schema' = CreateIfNotExists(schema, "student", variant)
            /\ pc' = "ensure_teacher"
            /\ UNCHANGED <<exitCode, log>>
       ELSE /\ StartupExit("tables_failed")
            /\ schema' = schema
    /\ out' = NoResp
    /\ UNCHANGED <<variant, env, attempt, db, storeUp, tables, autoInc,
                   inflight, sent>>
    /\ UNCHANGED staticVars

EnsureTeacher ==
    /\ pc = "ensure_teacher"
    /\ IF DbOk
       THEN /\ schema' = CreateIfNotExists(schema, "teacher", variant)
            /\ pc' = "listening"
            /\ log' = log \o <<"tables", "listen">>
            /\ exitCode' = exitCode
       ELSE /\ StartupExit("tables_failed")
            /\ schema' = schema
    /\ out' = NoResp
    /\ UNCHANGED <<variant, env, attempt, db, storeUp, tables, autoInc,
                   inflight, sent>>
    /\ UNCHANGED staticVars

\* the environment: the database goes down and comes back
StoreFail ==
    /\ pc \notin {"envcheck", "exited"}
    /\ storeUp
    /\ storeUp' = FALSE
    /\ out' = NoResp
    /\ UNCHANGED <<variant, env, pc, exitCode, attempt, db, log, schema,
                   tables, autoInc, inflight, sent>>
    /\ UNCHANGED staticVars

StoreRecover ==
    /\ pc \notin {"envcheck", "exited"}
    /\ ~storeUp
    /\ storeUp' = TRUE
    /\ out' = NoResp
    /\ UNCHANGED <<variant, env, pc, exitCode, attempt, db, log, schema,
                   tables, autoInc, inflight, sent>>
    /\ UNCHANGED staticVars

(***************************************************************************)
(* The store                                                               *)
(***************************************************************************)
Ids(rows) == {r.id : r \in rows}

MaxOf(S) == CHOOSE m \in S : \A x \in S : x <= m

MinOf(S) == CHOOSE m \in S : \A x \in S : m <= x

RECURSIVE SortIds(_)
SortIds(S) == IF S = {} THEN <<>> ELSE <<MinOf(S)>> \o SortIds(S \ {MinOf(S)})

RowWithId(rows, i) == CHOOSE r \in rows : r.id = i

\* SELECT * FROM t: the rows in primary-key order
SelectAll(rows) ==
    LET ids == SortIds(Ids(rows)) IN
    [k \in 1..Len(ids) |-> RowWithId(rows, ids[k])]

\* mysql2 formats an undefined parameter of query() as NULL
SqlValue(v) == IF v = Undef THEN "NULL" ELSE v

Row(id, body) ==
    [id |-> id, name |-> SqlValue(body.name), second |-> SqlValue(body.second),
     class |-> SqlValue(body.class)]

\* DELETE FROM t WHERE id = ?
DeleteWhere(rows, id) == {r \in rows : r.id # id}

\* UPDATE t SET id = new WHERE id = old fails on a duplicate primary key
UpdateOk(rows, new, old) ==
    ~(old \in Ids(rows) /\ new # old /\ new \in Ids(rows))

UpdateId(rows, new, old) ==
    {IF r.id = old THEN [r EXCEPT !.id = new] ELSE r : r \in rows}

(***************************************************************************)
(* Request handling                                                        *)
(***************************************************************************)
Listening == pc \in {"listening", "shutting"}

Handlers == BagToSet(inflight)

\* the handler r is replaced by its continuation / has finished
Suspend(r, next) == inflight' = (inflight (-) SetToBag({r})) (+) SetToBag({next})

Release(r) == inflight' = inflight (-) SetToBag({r})

RouteOf(r) ==
    CASE r.kind = "ready" -> "/ready"
      [] r.kind = "root" -> "/"
      [] r.kind = "list" -> IF r.t = "student" THEN "/student" ELSE "/teacher"
      [] r.kind = "add" ->
            IF r.t = "student" THEN "/addstudent" ELSE "/addteacher"
      [] r.kind = "del" ->
            IF r.t = "student" THEN "/student/:id" ELSE "/teacher/:id"
      [] OTHER -> "none"

Answer(r, status, body, data) ==
    Resp(RouteOf(r), status, body, data, r.body, r.id)

\* `!name || !rollNo || !className`
Falsy(v) == v \in {Undef, ""}

InvalidPayload(b) == Falsy(b.name) \/ Falsy(b.second) \/ Falsy(b.class)

\* GET /health
HealthHandlerStoreAware ==
    IF storeUp THEN Resp("/health", 200, "UP", <<>>, NoBody, 0)
    ELSE Resp("/health", 500, "DOWN", <<>>, NoBody, 0)

HealthHandler == Resp("/health", 200, "UP", <<>>, NoBody, 0)

\* a connection attempt on a port nobody listens on
Refused(route) == Resp(route, 0, "refused", <<>>, NoBody, 0)

HealthProbe ==
    /\ pc \notin {"envcheck", "exited"}
    /\ out' = IF Listening THEN HealthHandler ELSE Refused("/health")
    /\ UNCHANGED <<variant, env, pc, exitCode, attempt, db, log, storeUp,
                   schema, tables, autoInc, inflight, sent>>
    /\ UNCHANGED staticVars

\* the requests a client can send to the routes that query the store
NewRequests ==
    {Req("ready", "none", NoBody, 0, "query")}
    \cup {Req("root", "student", NoBody, 0, "query") : t \in {focus} \ {"teacher"}}
    \cup {Req("list", focus, NoBody, 0, "query")}
    \cup {Req("add", focus, b, 0, "start") : b \in Bodies}
    \cup {Req("del", focus, NoBody, i, "start") : i \in DeleteIds}

\* The synchronous part of a handler, up to its first await.
\* server.js validates the payload of a create; part_000 does not.
Receive ==
    /\ Listening
    /\ sent < MaxRequests
    /\ BagCardinality(inflight) < MaxInFlight
    /\ \E r \in NewRequests :
         IF r.kind = "add" /\ variant = "backend" /\ InvalidPayload(r.body)
         THEN /\ out' = Answer(r, 400, "Invalid payload", <<>>)
              /\ inflight' = inflight
         ELSE /\ out' = NoResp
              /\ inflight' = inflight (+) SetToBag({
                    IF r.kind = "add"
                    THEN [r EXCEPT !.pc =
                            IF variant = "backend" THEN "insert" ELSE "max"]
                    ELSE IF r.kind = "del" THEN [r EXCEPT !.pc = "delete"]
                    ELSE r})
    /\ sent' = sent + 1
    /\ UNCHANGED <<variant, env, pc, exitCode, attempt, db, log, storeUp,
                   schema, tables, autoInc>>
    /\ UNCHANGED staticVars

\* GET /ready: try { SELECT 1; 200 READY } catch { 500 NOT_READY }
ReadyAnswerAlwaysReady(r, ok) == Answer(r, 200, "READY", <<>>)

ReadyAnswer(r, ok) ==
    IF ok THEN Answer(r, 200, "READY", <<>>)
    ELSE Answer(r, 500, "NOT_READY", <<>>)

ReadyStep(r) ==
    /\ Listening
    /\ r.kind = "ready"
    /\ out' = ReadyAnswer(r, DbOk)
    /\ Release(r)
    /\ UNCHANGED <<variant, env, pc, exitCode, attempt, db, log, storeUp,
                   schema, tables, autoInc, sent>>
    /\ UNCHANGED staticVars

(***************************************************************************)
(* A rejection that no try/catch of the handler catches.  What follows     *)
(* depends on the framework and runtime the server is installed with:      *)
(*   "framework500": the router catches the rejected promise and its       *)
(*                   default error handler answers 500;                    *)
(*   "hang":         the rejection is only reported, the request is never  *)
(*                   answered;                                             *)
(*   "crash":        the unhandled rejection ends the process (status 1).  *)
(***************************************************************************)
UnhandledOutcomes == {"framework500", "hang", "crash"}

Unanswered(r) == Answer(r, 0, "unanswered", <<>>)

Unhandled(r, o) ==
    /\ out' = IF o = "framework500"
              THEN Answer(r, 500, "framework error page", <<>>)
              ELSE Unanswered(r)
    /\ pc' = IF o = "crash" THEN "exited" ELSE pc
    /\ exitCode' = IF o = "crash" THEN 1 ELSE exitCode

\* GET /, GET /student, GET /teacher: no try/catch in either version
ListStep(r) ==
    /\ Listening
    /\ r.kind \in {"root", "list"}
    /\ IF DbOk
       THEN /\ out' = Answer(r, 200,
                        IF r.kind = "root" THEN "From Backend" ELSE "rows",
                        SelectAll(tables[r.t]))
            /\ UNCHANGED <<pc, exitCode>>
       ELSE \E o \in UnhandledOutcomes : Unhandled(r, o)
    /\ Release(r)
    /\ UNCHANGED <<variant, env, attempt, db, log, storeUp, schema, tables,
                   autoInc, sent>>
    /\ UNCHANGED staticVars

\* the class column an INSERT names
InsertColumn(v, t) ==
    IF v = "backend"
    THEN IF t = "student" THEN "class_name" ELSE "class"
    ELSE "class"

\* the columns of the tables server.js creates are NOT NULL
NotNullOk(t, row) ==
    schema[t] = "class_name" =>
        "NULL" \notin {row.name, row.second, row.class}

InsertOk(t, row) ==
    /\ DbOk
    /\ schema[t] = InsertColumn(variant, t)
    /\ NotNullOk(t, row)
    /\ row.id \notin Ids(tables[t])

\* the counter after a row with identifier id was stored
BumpAutoInc(t, id) ==
    [autoInc EXCEPT ![t] = IF id >= @ THEN id + 1 ELSE @]

\* server.js POST /addstudent, /addteacher after validation: the INSERT lets
\* the store assign the identifier; any failure is answered 500
AddInsertBackend(r) ==
    LET row == Row(autoInc[r.t], r.body) IN
    /\ Listening
    /\ variant = "backend"
    /\ r.kind = "add"
    /\ r.pc = "insert"
    /\ IF InsertOk(r.t, row)
       THEN /\ tables' = [tables EXCEPT ![r.t] = @ \cup {row}]
            /\ autoInc' = BumpAutoInc(r.t, row.id)
            /\ out' = Answer(r, 201, "added", <<>>)
       ELSE /\ out' = Answer(r, 500, "Internal server error", <<>>)
            /\ UNCHANGED <<tables, autoInc>>
    /\ Release(r)
    /\ UNCHANGED <<variant, env, pc, exitCode, attempt, db, log, storeUp,
                   schema, sent>>
    /\ UNCHANGED staticVars

\* server.js DELETE /student/:id, /teacher/:id
DelBackend(r) ==
    /\ Listening
    /\ variant = "backend"
    /\ r.kind = "del"
    /\ IF DbOk
       THEN /\ tables' = [tables EXCEPT ![r.t] = DeleteWhere(@, r.id)]
            /\ out' = Answer(r, 200, "deleted", <<>>)
       ELSE /\ out' = Answer(r, 500, "Internal server error", <<>>)
            /\ tables' = tables
    /\ Release(r)
    /\ UNCHANGED <<variant, env, pc, exitCode, attempt, db, log, storeUp,
                   schema, autoInc, sent>>
    /\ UNCHANGED staticVars

\* part_000 getLastStudentID / getLastTeacherID: MAX(id), or 0 for NULL
GetLastID(rows) == IF rows = {} THEN 0 ELSE MaxOf(Ids(rows))

\* part_000 POST /add...: nextID = (await getLastID()) + 1
AddMaxUnnamed(r) ==
    /\ Listening
    /\ variant = "unnamed"
    /\ r.kind = "add"
    /\ r.pc = "max"
    /\ IF DbOk
       THEN /\ Suspend(r, [r EXCEPT !.pc = "insert",
                                    !.nextID = GetLastID(tables[r.t]) + 1])
            /\ out' = NoResp
            /\ UNCHANGED <<pc, exitCode>>
       ELSE /\ \E o \in UnhandledOutcomes : Unhandled(r, o)
            /\ Release(r)
    /\ UNCHANGED <<variant, env, attempt, db, log, storeUp, schema, tables,
                   autoInc, sent>>
    /\ UNCHANGED staticVars

\* part_000 POST /add...: INSERT with the explicit identifier, then res.json
AddInsertUnnamed(r) ==
    LET row == Row(r.nextID, r.body) IN
    /\ Listening
    /\ variant = "unnamed"
    /\ r.kind = "add"
    /\ r.pc = "insert"
    /\ IF InsertOk(r.t, row)
       THEN /\ tables' = [tables EXCEPT ![r.t] = @ \cup {row}]
            /\ autoInc' = BumpAutoInc(r.t, row.id)
            /\ out' = Answer(r, 200, "added", <<>>)
            /\ UNCHANGED <<pc, exitCode>>
       ELSE /\ \E o \in UnhandledOutcomes : Unhandled(r, o)
            /\ UNCHANGED <<tables, autoInc>>
    /\ Release(r)
    /\ UNCHANGED <<variant, env, attempt, db, log, storeUp, schema, sent>>
    /\ UNCHANGED staticVars

\* part_000 DELETE: the DELETE statement
DelDeleteUnnamed(r) ==
    /\ Listening
    /\ variant = "unnamed"
    /\ r.kind = "del"
    /\ r.pc = "delete"
    /\ IF DbOk
       THEN /\ tables' = [tables EXCEPT ![r.t] = DeleteWhere(@, r.id)]
            /\ Suspend(r, [r EXCEPT !.pc = "select"])
            /\ out' = NoResp
            /\ UNCHANGED <<pc, exitCode>>
       ELSE /\ \E o \in UnhandledOutcomes : Unhandled(r, o)
            /\ Release(r)
            /\ tables' = tables
    /\ UNCHANGED <<variant, env, attempt, db, log, storeUp, schema, autoInc,
                   sent>>
    /\ UNCHANGED staticVars

\* rows.map((row, index) => UPDATE ... [index + 1, row.id]) as <<new, old>>
Renumbering(rows) ==
    LET ids == SortIds(Ids(rows)) IN
    {<<k, ids[k]>> : k \in 1..Len(ids)}

\* part_000 DELETE: SELECT id ... ORDER BY id, then every UPDATE is issued at
\* once (Promise.all); with no rows left Promise.all([]) resolves at once
DelSelectUnnamed(r) ==
    LET ups == Renumbering(tables[r.t]) IN
    /\ Listening
    /\ variant = "unnamed"
    /\ r.kind = "del"
    /\ r.pc = "select"
    /\ IF DbOk
       THEN /\ IF ups = {}
               THEN /\ out' = Answer(r, 200, "deleted", <<>>)
                    /\ Release(r)
               ELSE /\ out' = NoResp
                    /\ Suspend(r, [r EXCEPT !.pc = "update", !.pending = ups])
            /\ UNCHANGED <<pc, exitCode>>
       ELSE /\ \E o \in UnhandledOutcomes : Unhandled(r, o)
            /\ Release(r)
    /\ UNCHANGED <<variant, env, attempt, db, log, storeUp, schema, tables,
                   autoInc, sent>>
    /\ UNCHANGED staticVars

\* part_000 DELETE: one of the pending UPDATEs runs, in any order.  The first
\* failure rejects Promise.all; the UPDATEs already issued still run.
DelUpdateUnnamed(r) ==
    /\ Listening
    /\ variant = "unnamed"
    /\ r.kind = "del"
    /\ r.pc = "update"
    /\ \E u \in r.pending :
         LET ok == DbOk /\ UpdateOk(tables[r.t], u[1], u[2])
             rest == r.pending \ {u} IN
         /\ tables' = IF ok
                      THEN [tables EXCEPT ![r.t] = UpdateId(@, u[1], u[2])]
                      ELSE tables
         /\ IF ok \/ r.rejected
            THEN /\ out' = IF rest = {} /\ ~r.rejected
                           THEN Answer(r, 200, "deleted", <<>>)
                           ELSE NoResp
                 /\ UNCHANGED <<pc, exitCode>>
            ELSE \E o \in UnhandledOutcomes : Unhandled(r, o)
         /\ IF rest = {} THEN Release(r)
            ELSE Suspend(r, [r EXCEPT !.pending = rest,
                                      !.rejected = r.rejected \/ ~ok])
    /\ UNCHANGED <<variant, env, attempt, db, log, storeUp, schema, autoInc,
                   sent>>
    /\ UNCHANGED staticVars

(***************************************************************************)
(* Graceful shutdown: process.on('SIGINT') closes the pool, then exits 0.  *)
(***************************************************************************)
Sigint ==
    /\ pc = "listening"
    /\ pc' = "shutting"
    /\ out' = NoResp
    /\ UNCHANGED <<variant, env, exitCode, attempt, db, log, storeUp, schema,
                   tables, autoInc, inflight, sent>>
    /\ UNCHANGED staticVars

ShutdownExit ==
    /\ pc = "shutting"
    /\ pc' = "exited"
    /\ exitCode' = 0
    /\ out' = NoResp
    /\ UNCHANGED <<variant, env, attempt, db, log, storeUp, schema, tables,
                   autoInc, inflight, sent>>
    /\ UNCHANGED staticVars

(***************************************************************************)
(* The server process                                                      *)
(***************************************************************************)
\* a database that is new, or that an earlier run of either version set up
InitialSchemas ==
    {[t \in Tables |-> c] : c \in {"none", "class_name", "class"}}

\* the rows an earlier run left behind: identifiers 1..n
InitialBody(i) ==
    IF i % 2 = 1 THEN [name |-> "a", second |-> "r1", class |-> "c1"]
    ELSE [name |-> "b", second |-> "r2", class |-> "c2"]

InitialRows(n) == {Row(i, InitialBody(i)) : i \in 1..n}

ConnIdle ==
    /\ focus \in Tables
    /\ retries = 0
    /\ failN = 0
    /\ cpc = "idle"
    /\ made = 0
    /\ lastErr = NoErr
    /\ thrown = NoErr

Init ==
    /\ variant \in Variants
    /\ env \in SUBSET RequiredSet
    /\ pc = "envcheck"
    /\ exitCode = NoExit
    /\ attempt = 0
    /\ db = FALSE
    /\ log = <<>>
    /\ storeUp \in BOOLEAN
    /\ schema \in InitialSchemas
    /\ \E n \in 0..MaxInitRows :
         /\ schema["student"] = "none" => n = 0
         /\ tables = [t \in Tables |-> InitialRows(n)]
         /\ autoInc = [t \in Tables |-> n + 1]
    /\ inflight = EmptyBag
    /\ out = NoResp
    /\ sent = 0
    /\ ConnIdle

Next ==
    \/ EnvCheck
    \/ StartupConnect
    \/ StartupDelay
    \/ EnsureStudent
    \/ EnsureTeacher
    \/ StoreFail
    \/ StoreRecover
    \/ HealthProbe
    \/ Receive
    \/ \E r \in Handlers : ReadyStep(r)
    \/ \E r \in Handlers : ListStep(r)
    \/ \E r \in Handlers : AddInsertBackend(r)
    \/ \E r \in Handlers : DelBackend(r)
    \/ \E r \in Handlers : AddMaxUnnamed(r)
    \/ \E r \in Handlers : AddInsertUnnamed(r)
    \/ \E r \in Handlers : DelDeleteUnnamed(r)
    \/ \E r \in Handlers : DelSelectUnnamed(r)
    \/ \E r \in Handlers : DelUpdateUnnamed(r)
    \/ Sigint
    \/ ShutdownExit

Spec == Init /\ [][Next]_vars

(***************************************************************************)
(* connectWithRetry(retries, delay) called on its own, against a store     *)
(* that fails the first failN attempts and succeeds on every later one.    *)
(***************************************************************************)
ErrorKinds == {"createPool", "query"}

ConnectTry ==
    /\ cpc = "try"
    /\ made' = made + 1
    /\ \E kind \in ErrorKinds :
         LET caught == [attempt |-> attempt, kind |-> kind]
             r == ConnectAttempt(attempt, retries, attempt > failN) IN
         CASE r = "return" ->
                /\ cpc' = "returned"
                /\ UNCHANGED <<lastErr, thrown>>
           [] r = "throw" ->
                /\ cpc' = "threw"
                /\ lastErr' = caught
                /\ thrown' = caught
           [] OTHER ->
                /\ cpc' = "delay"
                /\ lastErr' = caught
                /\ thrown' = thrown
    /\ UNCHANGED <<attempt, focus, retries, failN>>
    /\ UNCHANGED serverVars

ConnectDelay ==
    /\ cpc = "delay"
    /\ attempt' = attempt + 1
    /\ cpc' = IF LoopCond(attempt + 1, retries) THEN "try" ELSE "fellout"
    /\ UNCHANGED <<focus, retries, failN, made, lastErr, thrown>>
    /\ UNCHANGED serverVars

InitConnect ==
    /\ variant \in Variants
    /\ env = RequiredSet
    /\ pc = "connecting"
    /\ exitCode = NoExit
    /\ attempt = 1
    /\ db = FALSE
    /\ log = <<>>
    /\ storeUp = TRUE
    /\ schema = [t \in Tables |-> "none"]
    /\ tables = [t \in Tables |-> {}]
    /\ autoInc = [t \in Tables |-> 1]
    /\ inflight = EmptyBag
    /\ out = NoResp
    /\ sent = 0
    /\ focus = "student"
    /\ retries \in 1..MaxAttempts
    /\ failN \in 0..MaxFail
    /\ cpc = "try"
    /\ made = 0
    /\ lastErr = NoErr
    /\ thrown = NoErr

NextConnect == ConnectTry \/ ConnectDelay

SpecConnect == InitConnect /\ [][NextConnect]_vars

(***************************************************************************)
(* Properties                                                              *)
(***************************************************************************)

\* C1: against a store that fails the first failN attempts, connectWithRetry
\* returns on attempt failN + 1 after exactly failN + 1 attempts when that
\* is within retries; otherwise it makes exactly retries attempts, never
\* more, and throws the error caught at the last attempt.
C1_ConnectContract ==
    /\ made <= retries
    /\ attempt <= retries
    /\ cpc # "fellout"
    /\ cpc = "returned" =>
          /\ failN + 1 <= retries
          /\ made = failN + 1
          /\ attempt = failN + 1
    /\ cpc = "threw" =>
          /\ failN + 1 > retries
          /\ made = retries
          /\ thrown = lastErr
          /\ thrown.attempt = retries
    /\ cpc \in {"try", "delay"} => made < failN + 1 /\ made < retries

C1_Witness == cpc = "returned" /\ failN >= 2 /\ made = failN + 1

C1_WitnessThrow == cpc = "threw" /\ retries >= 2 /\ thrown.attempt = retries

StartupOrder == <<"env_ok", "pool", "tables", "listen">>

LogSet == {log[i] : i \in 1..Len(log)}

\* C2: the listener is opened only after the four required variables were
\* found set, connectWithRetry returned a pool and ensureTables completed,
\* in this order; a missing variable, a failure of all connection attempts
\* or a failure of ensureTables ends the process with status 1 without a
\* listener ever having been opened.
C2_ListenOnlyAfterStartup ==
    /\ "listen" \in LogSet <=> pc \in {"listening", "shutting"} \/
                               (pc = "exited" /\ Len(log) = Len(StartupOrder))
    /\ "listen" \in LogSet =>
          /\ log = StartupOrder
          /\ RequiredSet \subseteq env
          /\ db
          /\ \A t \in Tables : schema[t] # "none"
    /\ (pc # "envcheck" /\ ~(RequiredSet \subseteq env)) =>
          /\ pc = "exited" /\ exitCode = 1 /\ "listen" \notin LogSet
          /\ log = <<"env_missing">>
    /\ LogSet \cap {"env_missing", "connect_failed", "tables_failed"} # {} =>
          pc = "exited" /\ exitCode = 1 /\ "listen" \notin LogSet
    /\ "connect_failed" \in LogSet => attempt = DefaultRetries /\ ~db
    /\ pc \in {"connecting", "delay"} => attempt \in 1..DefaultRetries /\ ~db

C2_Witness == pc = "listening" /\ log = StartupOrder

C2_WitnessConnectFailed == pc = "exited" /\ "connect_failed" \in LogSet

C2_WitnessTablesFailed == pc = "exited" /\ "tables_failed" \in LogSet

\* C9 as claimed: at every moment at which the process is running, a
\* GET /health request is answered 200 {status: "UP"}.
C9_HealthWhileRunning ==
    (out.route = "/health" /\ pc # "exited") =>
        out.status = 200 /\ out.body = "UP"

\* C9 as amended: at every moment at which the listener is open, a
\* GET /health request is answered 200 {status: "UP"}, whatever the state of
\* the store; before that the request is refused.
C9_HealthWhileListening ==
    out.route = "/health" =>
        IF Listening THEN out.status = 200 /\ out.body = "UP"
        ELSE out.body = "refused"

C9_Witness == out.route = "/health" /\ Listening /\ ~storeUp

\* the handler r ran its continuation in this step
Stepped(r) == CopiesIn(r, inflight') < CopiesIn(r, inflight)

\* the handler r ended in this step
Finished(r) == inflight' = inflight (-) SetToBag({r})

\* C10: a GET /ready is answered 200 READY if its SELECT 1 succeeds and
\* 500 NOT_READY if it fails; the step neither ends the process nor changes
\* a table, and it always answers.
C10_Ready ==
    [][\A r \in Handlers :
         (r.kind = "ready" /\ Stepped(r)) =>
            /\ Finished(r)
            /\ out'.route = "/ready"
            /\ DbOk => out'.status = 200 /\ out'.body = "READY"
            /\ ~DbOk => out'.status = 500 /\ out'.body = "NOT_READY"
            /\ pc' = pc /\ exitCode' = exitCode
            /\ tables' = tables /\ schema' = schema /\ autoInc' = autoInc]_vars

C10_Witness == out.route = "/ready" /\ out.status = 500 /\ pc = "listening"

\* the store answers and the table was created by ensureTables of the
\* running server
Healthy(t) == DbOk /\ schema[t] = OwnColumn(variant)

AddRoutes == {"/addstudent", "/addteacher"}

\* the list GET /<t> returns grew by exactly one row, appended, that holds
\* the fields of body b
AppendedRow(t, b) ==
    LET before == SelectAll(tables[t])
        after == SelectAll(tables'[t]) IN
    /\ Len(after) = Len(before) + 1
    /\ SubSeq(after, 1, Len(before)) = before
    /\ after[Len(after)].name = b.name
    /\ after[Len(after)].second = b.second
    /\ after[Len(after)].class = b.class

\* C3: a POST /addstudent with the three fields present and non-empty, on a
\* healthy store and in any interleaving, is answered 201 and appends one
\* row holding the submitted name, rollNo and class to what GET /student
\* returns.
C3_StudentCreated ==
    [][\A r \in Handlers :
         (/\ r.kind = "add" /\ r.t = "student" /\ ~InvalidPayload(r.body)
          /\ Healthy("student") /\ Stepped(r) /\ r.pc = "insert") =>
            /\ Finished(r)
            /\ out'.route = "/addstudent" /\ out'.status = 201
            /\ AppendedRow("student", r.body)]_vars

\* C3 on server.js alone
C3_StudentCreatedBackend ==
    [][variant = "backend" =>
       \A r \in Handlers :
         (/\ r.kind = "add" /\ r.t = "student" /\ ~InvalidPayload(r.body)
          /\ Healthy("student") /\ Stepped(r) /\ r.pc = "insert") =>
            /\ Finished(r)
            /\ out'.route = "/addstudent" /\ out'.status = 201
            /\ AppendedRow("student", r.body)]_vars

\* C4: on server.js, a POST /addteacher with the three fields present and
\* non-empty, on a healthy store whose teacher table ensureTables of the
\* same server created, is answered 201 and adds exactly one teacher row
\* holding the submitted name, subject and class.
C4_TeacherCreated ==
    [][variant = "backend" =>
       \A r \in Handlers :
         (/\ r.kind = "add" /\ r.t = "teacher" /\ ~InvalidPayload(r.body)
          /\ Healthy("teacher") /\ Stepped(r)) =>
            /\ Finished(r)
            /\ out'.route = "/addteacher" /\ out'.status = 201
            /\ AppendedRow("teacher", r.body)]_vars

\* C5: a create whose payload lacks a field or holds an empty one is
\* answered 400, sends no statement to the store (no handler of it ever
\* waits for one) and leaves the tables as they were.
C5_InvalidRejected ==
    [][/\ \A r \in BagToSet(inflight') :
            r.kind = "add" => ~InvalidPayload(r.body)
       /\ (out'.route \in AddRoutes /\ InvalidPayload(out'.reqBody)) =>
            /\ out'.status = 400
            /\ tables' = tables /\ autoInc' = autoInc]_vars

C5_InvalidRejectedBackend ==
    [][variant = "backend" =>
       /\ \A r \in BagToSet(inflight') :
            r.kind = "add" => ~InvalidPayload(r.body)
       /\ (out'.route \in AddRoutes /\ InvalidPayload(out'.reqBody)) =>
            /\ out'.status = 400
            /\ tables' = tables /\ autoInc' = autoInc]_vars

\* C6: on a healthy store every step of a DELETE /<t>/:id handler leaves the
\* table as it was less the rows with that identifier (every other row keeps
\* its identifier and fields), and the request is answered 200.
C6_DeleteFrame ==
    [][\A r \in Handlers :
         (r.kind = "del" /\ Healthy(r.t) /\ Stepped(r)) =>
            /\ tables'[r.t] = {w \in tables[r.t] : w.id # r.id}
            /\ Finished(r) => out'.status = 200 /\ out'.reqId = r.id]_vars

C6_DeleteFrameBackend ==
    [][variant = "backend" =>
       \A r \in Handlers :
         (r.kind = "del" /\ Healthy(r.t) /\ Stepped(r)) =>
            /\ tables'[r.t] = {w \in tables[r.t] : w.id # r.id}
            /\ Finished(r)
            /\ out'.status = 200 /\ out'.reqId = r.id]_vars

DataKinds == {"root", "list", "add", "del"}

\* C7: when a store query of a data route handler fails, the request is
\* answered 500 and the process keeps running.
C7_QueryFailureAnswered500 ==
    [][\A r \in Handlers :
         (r.kind \in DataKinds /\ ~r.rejected /\ ~DbOk /\ Stepped(r)) =>
            /\ Finished(r)
            /\ out'.route = RouteOf(r) /\ out'.status = 500
            /\ pc' = pc /\ exitCode' = exitCode]_vars

\* C7 for the create and delete handlers of server.js, which have a
\* try/catch
C7_BackendWritesAnswered500 ==
    [][variant = "backend" =>
       \A r \in Handlers :
         (r.kind \in {"add", "del"} /\ ~DbOk /\ Stepped(r)) =>
            /\ Finished(r)
            /\ out'.route = RouteOf(r) /\ out'.status = 500
            /\ pc' = pc /\ exitCode' = exitCode]_vars

\* C8: no two rows of a table share an identifier, and an identifier that
\* appears in a table is greater than every identifier the table ever held
\* (the store's counter is above all of those).
C8_IdentifiersNeverReused ==
    [][\A t \in Tables :
         /\ \A w1, w2 \in tables'[t] : w1.id = w2.id => w1 = w2
         /\ \A w \in tables'[t] :
              w.id \notin Ids(tables[t]) =>
                 /\ w.id >= autoInc[t]
                 /\ \A v \in tables[t] : v.id < w.id]_vars

C8_IdentifiersNeverReusedBackend ==
    [][variant = "backend" =>
       \A t \in Tables :
         /\ \A w1, w2 \in tables'[t] : w1.id = w2.id => w1 = w2
         /\ \A w \in tables'[t] :
              w.id \notin Ids(tables[t]) =>
                 /\ w.id >= autoInc[t]
                 /\ \A v \in tables[t] : v.id < w.id]_vars

====
